---- MODULE Spec2Model ----
(***************************************************************************)
(* A model of StreamableHttpFetchTransport (the Streamable-HTTP transport  *)
(* over a fetch-style request/response interface) together with its two    *)
(* environments: the HTTP peers (POST, GET, DELETE, other verbs, stream     *)
(* cancellation) and the MCP server core (onmessage / send / close).        *)
(*                                                                          *)
(* One action is one run of a handler between two suspension points of the  *)
(* single cooperative executor.  handlePostRequest has one suspension       *)
(* point before it touches the transport state (await request.json()) and,  *)
(* in JSON-response mode, one after it (await Promise.all).  The            *)
(* continuation of Promise.all is a chain of microtasks started by the      *)
(* send() that resolves the last future: it runs before any other handler   *)
(* is entered and reads nothing but the futures' values, so it is part of   *)
(* that send step.                                                          *)
(*                                                                          *)
(* What a handler returns, throws, writes to a sink or hands to a callback  *)
(* is a function of the state it starts in and of its input: the operators  *)
(* named ...Response and ...Outcome compute it, and each action changes the *)
(* state as that result says.                                               *)
(***************************************************************************)
EXTENDS Integers, Sequences, FiniteSets, TLC

\* ------------------------------------------------------------------ bounds

\* POST handlers that may be in flight at once.
MaxPosts == 2
\* JSON-RPC request ids clients choose from: 1..MaxId.
MaxId == 2
\* Longest POST body, in messages.
MaxBatch == 2
\* SSE streams (standalone and request-bound) created in one behaviour.
MaxStreams == 2
\* Session ids the generator hands out in one behaviour.
MaxSessions == 2
\* Requests the server core may hold unanswered for one id.
MaxOwed == 2

\* The value of an absent optional (undefined / null / a missing header).
Undefined == 0

Posts == 1..MaxPosts
RequestIds == 1..MaxId
StreamIds == 1..MaxStreams
\* Values of the mcp-session-id header: absent, or a string.  The strings are
\* the ones the generator hands out, so a header may name the current session,
\* a terminated one, or one that was never assigned.
SessionHeaders == 0..MaxSessions

\* ---------------------------------------------------------------- messages

\* Messages a client puts in a POST body.  An initialize message is a
\* request whose method is "initialize"; it carries an id like any request.
\* A response answers a request the server made.
ClientMessages ==
    [kind : {"request", "initialize", "response"}, id : RequestIds]
        \cup {[kind |-> "notification", id |-> Undefined]}

\* Messages the server core passes to send().
ServerMessages ==
    [kind : {"response", "error"}, id : RequestIds]
        \cup {[kind |-> "notification", id |-> Undefined]}

isJSONRPCRequest(m) == m.kind \in {"request", "initialize"}
isInitializeRequest(m) == m.kind = "initialize"
isJSONRPCResponse(m) == m.kind = "response"
isJSONRPCError(m) == m.kind = "error"

RECURSIVE SeqsUpTo(_, _)
SeqsUpTo(S, n) ==
    IF n = 0 THEN {<<>>}
    ELSE LET shorter == SeqsUpTo(S, n - 1)
         IN shorter \cup {Append(q, x) : q \in {r \in shorter : Len(r) = n - 1}, x \in S}

\* What `await request.json()` followed by JSONRPCMessageSchema.parse yields:
\* a JSON syntax error, a schema failure, or the list of messages.  A body
\* that fails the schema has at least one element that is no message;
\* `messages` are its other elements, the valid ones.
Bodies ==
    {[parsed |-> "json-error", messages |-> <<>>]}
        \cup {[parsed |-> "schema-error", messages |-> q] :
                 q \in SeqsUpTo(ClientMessages, MaxBatch - 1)}
        \cup {[parsed |-> "ok", messages |-> q] : q \in SeqsUpTo(ClientMessages, MaxBatch)}

Range(q) == {q[k] : k \in 1..Len(q)}
\* messages.some(isInitializeRequest) and messages.some(isJSONRPCRequest)
isInitializationRequest(messages) ==
    \E k \in 1..Len(messages) : isInitializeRequest(messages[k])
hasRequests(messages) ==
    \E k \in 1..Len(messages) : isJSONRPCRequest(messages[k])

\* messages.filter(isJSONRPCRequest).map((message) => message.id)
RECURSIVE requestIdsOf(_)
requestIdsOf(q) ==
    IF q = <<>> THEN <<>>
    ELSE IF isJSONRPCRequest(Head(q)) THEN <<Head(q).id>> \o requestIdsOf(Tail(q))
    ELSE requestIdsOf(Tail(q))

\* ------------------------------------------------------------------- state

VARIABLES
    sessionIdGenerator,     \* TRUE iff options.sessionIdGenerator is configured
    _enableJsonResponse,
    _enableDnsRebindingProtection,
    _allowedHosts,          \* the entries of the list; {} for undefined or []
    _allowedOrigins,        \* the entries of the list; {} for undefined or []
    _initialized,
    sessionId,              \* Undefined, or the string the generator returned
    generated,              \* how many ids the generator has returned
    _standaloneStream,      \* Undefined, or the id of the standalone StreamState
    _streams,               \* the keys of the Map: the ids of the registered StreamStates
    _requestToStream,       \* request id -> stream id
    _pendingJsonResponses,  \* request id -> <<post, k>>: the resolver of future k of that POST
    sinks,                  \* every ReadableStream created so far with its StreamState, by stream id
    posts,                  \* the POST handlers, by slot
    owed                    \* server core: requests handed over and not yet answered, per id

\* The worker entry point (one isolate; every fetch call runs in it).
VARIABLES
    ADO_ORG,                \* TRUE iff env.ADO_ORG is set
    cachedState,            \* Undefined, or the transport of the WorkerState
    created,                \* how many McpServer / transport pairs initWorker has built
    fetches,                \* the fetch calls, by slot
    handledBy               \* the transports that were handed a request

workerVars == <<ADO_ORG, cachedState, created, fetches, handledBy>>

\* shared/ado-auth: one token taken through formatAuthorizationHeader and
\* parseAuthorizationHeader.  A string is the sequence of its character
\* codes.
VARIABLES
    token,                  \* the token to format
    scheme,                 \* "bearer" or "pat"
    headerValue,            \* what formatAuthorizationHeader returned, once called
    parsedToken             \* what parseAuthorizationHeader returned, once called

authVars == <<token, scheme, headerValue, parsedToken>>

\* tools: one call of the work-item unlink tool.
VARIABLES
    relations,              \* workItem.relations ?? []
    type,                   \* the link type name asked for
    url,                    \* the url asked for; "absent" for undefined
    relationIndexes         \* the indexes selected for removal, once computed

unlinkVars == <<relations, type, url, relationIndexes>>

\* The client-secret token provider: the closure createClientSecretTokenProvider
\* returns, its calls and the clock.
VARIABLES
    cache,                  \* let cache: TokenCache | undefined
    now,                    \* Date.now(), in ms
    calls                   \* the calls of the provider, by slot

providerVars == <<cache, now, calls>>

\* The state of the other modules of the repository.
moduleVars == <<workerVars, authVars, unlinkVars, providerVars>>

transportVars ==
    <<_initialized, sessionId, generated, _standaloneStream, _streams,
      _requestToStream, _pendingJsonResponses, sinks>>
configVars ==
    <<sessionIdGenerator, _enableJsonResponse, _enableDnsRebindingProtection,
      _allowedHosts, _allowedOrigins>>
vars == <<configVars, transportVars, posts, owed, moduleVars>>

IdlePost == [phase |-> "idle", ids |-> <<>>, futures |-> <<>>]
\* A future not yet resolved.
Unresolved == [kind |-> "unresolved", id |-> Undefined]

\* What one run of a handler produces: the HTTP response (status 0: none
\* yet), the messages handed to onmessage, the stream the response carries,
\* the sink an event was enqueued into, the sinks whose controller was
\* closed, the future resolved, the error thrown, and the callbacks made.
NoOut ==
    [status |-> 0, code |-> 0, message |-> "", dispatched |-> <<>>, body |-> <<>>,
     single |-> FALSE, stream |-> Undefined, wrote |-> Undefined, closed |-> {},
     resolved |-> <<>>, threw |-> "", onerror |-> FALSE, onclose |-> 0]

\* The field initialisers: a transport that has handled nothing.
Constructed ==
    /\ _initialized = FALSE
    /\ sessionId = Undefined
    /\ generated = 0
    /\ _standaloneStream = Undefined
    /\ _streams = {}
    /\ _requestToStream = <<>>
    /\ _pendingJsonResponses = <<>>
    /\ sinks = <<>>
    /\ posts = [p \in Posts |-> IdlePost]
    /\ owed = [i \in RequestIds |-> 0]

\* Bounds of the worker: fetch calls in flight at once, and transports built
\* in one behaviour.
MaxFetches == 3
MaxTransports == 3
Fetches == 1..MaxFetches

IdleFetch == [pc |-> "idle", transport |-> Undefined]

\* The module scope of the worker when it is loaded: let cachedState.
WorkerLoaded ==
    /\ cachedState = Undefined
    /\ created = 0
    /\ fetches = [f \in Fetches |-> IdleFetch]
    /\ handledBy = {}

\* A value not yet computed, the value undefined, and a string.
Unset == [state |-> "unset", value |-> <<>>]
NoString == [state |-> "undefined", value |-> <<>>]
String(chars) == [state |-> "string", value |-> chars]

\* No token has been formatted or parsed.
AuthUncalled ==
    /\ headerValue = Unset
    /\ parsedToken = Unset

\* The unlink tool has not been called.
UnlinkUncalled ==
    /\ relations = <<>>
    /\ type = "related"
    /\ url = "absent"
    /\ relationIndexes = Unset

\* Calls of the token provider in flight at once.
MaxCalls == 2
Calls == 1..MaxCalls

\* let cache: undefined.
NoCache == [set |-> FALSE, accessToken |-> Undefined, expiresAtMs |-> 0]

\* The provider as createClientSecretTokenProvider returns it.
ProviderCreated ==
    /\ cache = NoCache
    /\ now = 0
    /\ calls = [c \in Calls |-> "idle"]

\* The other modules, loaded and not called.
ModulesLoaded ==
    /\ ProviderCreated
    /\ ADO_ORG = TRUE
    /\ WorkerLoaded
    /\ token = <<>>
    /\ scheme = "bearer"
    /\ AuthUncalled
    /\ UnlinkUncalled

\* A transport constructed without DNS-rebinding protection (the default).
Init ==
    /\ ModulesLoaded
    /\ sessionIdGenerator \in BOOLEAN
    /\ _enableJsonResponse \in BOOLEAN
    /\ _enableDnsRebindingProtection = FALSE
    /\ _allowedHosts = {}
    /\ _allowedOrigins = {}
    /\ Constructed

\* ----------------------------------------------------------------- helpers

\* A wrong Map.delete: one that leaves the entry in place.
MapKeep(m, k) == m

\* A wrong purge: one that deletes no entry.
MapDeleteAllNone(m, ks) == m

\* Map.set / Map.delete on a function used as a Map.
MapSet(m, k, v) == [x \in DOMAIN m \cup {k} |-> IF x = k THEN v ELSE m[x]]
MapDelete(m, k) == [x \in DOMAIN m \ {k} |-> m[x]]
MapDeleteAll(m, ks) == [x \in DOMAIN m \ ks |-> m[x]]

\* A wrong registration: one that sets no entry.
MapSetEachNone(m, ks, vs, k) == m

\* map.set(ks[k], vs[k]) for k, k + 1, ... in sequence order: a later entry
\* for the same key replaces an earlier one.
RECURSIVE MapSetEach(_, _, _, _)
MapSetEach(m, ks, vs, k) ==
    IF k > Len(ks) THEN m
    ELSE MapSetEach(MapSet(m, ks[k], vs[k]), ks, vs, k + 1)

\* this.jsonRpcError(status, code, message)
jsonRpcError(status, code, message) ==
    [NoOut EXCEPT !.status = status, !.code = code, !.message = message]

\* ------------------------------------------------------------------ GET

\* new ReadableStream({start, cancel}) with its StreamState: the controller
\* is open, and pendingIds is the Set the cancel callback and the
\* StreamState share.
NewSink(kind, pendingIds) ==
    [kind |-> kind, state |-> "open", pendingIds |-> pendingIds]

\* crypto.randomUUID(): an id no stream has had.
NewStreamId == Len(sinks) + 1

handleGetResponse ==
    IF _standaloneStream # Undefined
    THEN jsonRpcError(409, -32000, "Conflict: Only one SSE stream is allowed.")
    ELSE [NoOut EXCEPT !.status = 200, !.stream = NewStreamId]

handleGetRequest ==
    IF handleGetResponse.status # 200
    THEN UNCHANGED <<transportVars, posts>>
    ELSE /\ Len(sinks) < MaxStreams
         /\ sinks' = Append(sinks, NewSink("standalone", {}))
         /\ _standaloneStream' = NewStreamId
         /\ UNCHANGED <<_initialized, sessionId, generated, _streams, _requestToStream,
                        _pendingJsonResponses, posts>>

\* ----------------------------------------------------------------- POST

AcceptHeaders == SUBSET {"application/json", "text/event-stream"}
ContentTypes == {"application/json", "text/plain"}
\* The mcp-protocol-version header: absent (null), a supported version, or
\* a string that is no supported version.
VersionHeaders == {"absent", "supported", "unsupported"}
DEFAULT_NEGOTIATED_PROTOCOL_VERSION == "supported"
SUPPORTED_PROTOCOL_VERSIONS == {"supported"}

\* A wrong validateProtocolVersion: one that accepts every version.
validateProtocolVersionLax(versionHeader) == ""

\* Returns the error text, "" for undefined.
validateProtocolVersion(versionHeader) ==
    LET version == IF versionHeader = "absent" THEN DEFAULT_NEGOTIATED_PROTOCOL_VERSION
                   ELSE versionHeader
    IN IF version \notin SUPPORTED_PROTOCOL_VERSIONS
       THEN "Bad Request: Unsupported protocol version"
       ELSE ""

\* handlePostRequest up to its suspension point, await request.json():
\* the Accept and Content-Type guards.  Status 0: the handler goes on.
postBeginResponse(accept, contentType) ==
    IF ~({"application/json", "text/event-stream"} \subseteq accept)
    THEN jsonRpcError(406, -32000, "Not Acceptable: Client must accept both application/json and text/event-stream")
    ELSE IF contentType # "application/json"
    THEN jsonRpcError(415, -32000, "Unsupported Media Type: Content-Type must be application/json")
    ELSE NoOut

PostBegin(p, accept, contentType) ==
    /\ posts[p].phase = "idle"
    /\ \A q \in Posts : q < p => posts[q].phase # "idle"
    /\ posts' = IF postBeginResponse(accept, contentType).status # 0 THEN posts
                ELSE [posts EXCEPT ![p].phase = "parsing"]
    /\ UNCHANGED transportVars

\* A wrong handlePostRequest: one that skips the elements of a body that
\* fail the schema and goes on with the valid ones.
postVerdictSchemaUnchecked(body, sessionIdHeader, versionHeader) ==
    IF body.parsed = "json-error"
    THEN [jsonRpcError(400, -32700, "Parse error") EXCEPT !.onerror = TRUE]
    ELSE IF isInitializationRequest(body.messages)
    THEN IF _initialized /\ sessionId # Undefined
         THEN jsonRpcError(400, -32600, "Invalid Request: Server already initialized")
         ELSE IF Len(body.messages) > 1
         THEN jsonRpcError(400, -32600, "Invalid Request: Only one initialization request is allowed")
         ELSE NoOut
    ELSE IF sessionIdGenerator /\ sessionIdHeader = Undefined
    THEN jsonRpcError(400, -32000, "Bad Request: Missing Mcp-Session-Id header")
    ELSE IF sessionIdGenerator /\ sessionIdHeader # sessionId
    THEN jsonRpcError(404, -32001, "Session not found")
    ELSE IF validateProtocolVersion(versionHeader) # ""
    THEN jsonRpcError(400, -32000, validateProtocolVersion(versionHeader))
    ELSE NoOut

\* A wrong handlePostRequest: one that accepts a body without an initialize
\* message whatever its session header is.
postVerdictSessionUnchecked(body, sessionIdHeader, versionHeader) ==
    IF body.parsed # "ok"
    THEN [jsonRpcError(400, -32700, "Parse error") EXCEPT !.onerror = TRUE]
    ELSE IF isInitializationRequest(body.messages)
    THEN IF _initialized /\ sessionId # Undefined
         THEN jsonRpcError(400, -32600, "Invalid Request: Server already initialized")
         ELSE IF Len(body.messages) > 1
         THEN jsonRpcError(400, -32600, "Invalid Request: Only one initialization request is allowed")
         ELSE NoOut
    ELSE IF validateProtocolVersion(versionHeader) # ""
    THEN jsonRpcError(400, -32000, validateProtocolVersion(versionHeader))
    ELSE NoOut

\* A wrong handlePostRequest: one that accepts an initialize message while
\* a session is assigned.
postVerdictInitializeUnchecked(body, sessionIdHeader, versionHeader) ==
    IF body.parsed # "ok"
    THEN [jsonRpcError(400, -32700, "Parse error") EXCEPT !.onerror = TRUE]
    ELSE IF isInitializationRequest(body.messages)
    THEN IF Len(body.messages) > 1
         THEN jsonRpcError(400, -32600, "Invalid Request: Only one initialization request is allowed")
         ELSE NoOut
    ELSE IF sessionIdGenerator /\ sessionIdHeader = Undefined
    THEN jsonRpcError(400, -32000, "Bad Request: Missing Mcp-Session-Id header")
    ELSE IF sessionIdGenerator /\ sessionIdHeader # sessionId
    THEN jsonRpcError(404, -32001, "Session not found")
    ELSE IF validateProtocolVersion(versionHeader) # ""
    THEN jsonRpcError(400, -32000, validateProtocolVersion(versionHeader))
    ELSE NoOut

\* handlePostRequest from the resumption of await request.json() to the
\* end of the session and protocol-version checks: the error Response it
\* returns, or status 0 when the body goes on to be routed.
postVerdict(body, sessionIdHeader, versionHeader) ==
    IF body.parsed # "ok"
    THEN [jsonRpcError(400, -32700, "Parse error") EXCEPT !.onerror = TRUE]
    ELSE IF isInitializationRequest(body.messages)
    THEN IF _initialized /\ sessionId # Undefined
         THEN jsonRpcError(400, -32600, "Invalid Request: Server already initialized")
         ELSE IF Len(body.messages) > 1
         THEN jsonRpcError(400, -32600, "Invalid Request: Only one initialization request is allowed")
         ELSE NoOut
    ELSE IF sessionIdGenerator /\ sessionIdHeader = Undefined
    THEN jsonRpcError(400, -32000, "Bad Request: Missing Mcp-Session-Id header")
    ELSE IF sessionIdGenerator /\ sessionIdHeader # sessionId
    THEN jsonRpcError(404, -32001, "Session not found")
    ELSE IF validateProtocolVersion(versionHeader) # ""
    THEN jsonRpcError(400, -32000, validateProtocolVersion(versionHeader))
    ELSE NoOut

\* A wrong handlePostRequest: one that opens a channel for every body.
routeAlwaysChannel(messages) ==
    IF _enableJsonResponse THEN "collectJsonResponses" ELSE "createSseResponse"

\* The three ways handlePostRequest goes on with a body it has accepted.
route(messages) ==
    IF ~hasRequests(messages) THEN "acknowledge"
    ELSE IF _enableJsonResponse THEN "collectJsonResponses"
    ELSE "createSseResponse"

\* What the handler has produced when it returns or, in JSON-response mode,
\* suspends at await Promise.all: every message has been handed to
\* onmessage, in body order.
postResumeResponse(body, sessionIdHeader, versionHeader) ==
    LET verdict == postVerdict(body, sessionIdHeader, versionHeader)
        dispatched == [NoOut EXCEPT !.dispatched = body.messages]
    IN IF verdict.status # 0 THEN verdict
       ELSE CASE route(body.messages) = "acknowledge" -> [dispatched EXCEPT !.status = 202]
              [] route(body.messages) = "collectJsonResponses" -> dispatched
              [] OTHER -> [dispatched EXCEPT !.status = 200, !.stream = NewStreamId]

\* hasRequests is false: dispatch and acknowledge.
acknowledge(p) ==
    /\ posts' = [posts EXCEPT ![p] = IdlePost]
    /\ UNCHANGED <<_standaloneStream, _streams, _requestToStream, _pendingJsonResponses, sinks>>

\* collectJsonResponses up to its suspension point, await Promise.all.
collectJsonResponses(p, messages) ==
    LET requestIds == requestIdsOf(messages)
    IN /\ _pendingJsonResponses' =
              MapSetEach(_pendingJsonResponses, requestIds,
                         [k \in 1..Len(requestIds) |-> <<p, k>>], 1)
       /\ posts' = [posts EXCEPT ![p] =
              [phase |-> "awaiting", ids |-> requestIds,
               futures |-> [k \in 1..Len(requestIds) |-> Unresolved]]]
       /\ UNCHANGED <<_standaloneStream, _streams, _requestToStream, sinks>>

createSseResponse(p, messages) ==
    LET streamId == NewStreamId
        requestIds == requestIdsOf(messages)
    IN /\ Len(sinks) < MaxStreams
       /\ _requestToStream' = MapSetEach(_requestToStream, requestIds,
                                       [k \in 1..Len(requestIds) |-> streamId], 1)
       /\ sinks' = Append(sinks, NewSink("request", Range(requestIds)))
       /\ _streams' = _streams \cup {streamId}
       /\ posts' = [posts EXCEPT ![p] = IdlePost]
       /\ UNCHANGED <<_standaloneStream, _pendingJsonResponses>>

\* A wrong initialize: one that does not call the generator.
KeptSessionId == sessionId

\* sessionIdGenerator?.()
NextSessionId == IF sessionIdGenerator THEN generated + 1 ELSE Undefined

PostResume(p, body, sessionIdHeader, versionHeader) ==
    /\ posts[p].phase = "parsing"
    /\ IF postVerdict(body, sessionIdHeader, versionHeader).status # 0
       THEN /\ posts' = [posts EXCEPT ![p] = IdlePost]
            /\ UNCHANGED transportVars
       ELSE /\ IF isInitializationRequest(body.messages)
               THEN /\ sessionIdGenerator => generated < MaxSessions
                    /\ generated' = IF sessionIdGenerator THEN generated + 1 ELSE generated
                    /\ sessionId' = NextSessionId
                    /\ _initialized' = TRUE
               ELSE UNCHANGED <<_initialized, sessionId, generated>>
            /\ CASE route(body.messages) = "acknowledge" -> acknowledge(p)
                 [] route(body.messages) = "collectJsonResponses" ->
                        collectJsonResponses(p, body.messages)
                 [] OTHER -> createSseResponse(p, body.messages)


\* The promises of one POST are all resolved.
Settled(futures) == \A k \in 1..Len(futures) : futures[k] # Unresolved

\* A wrong Promise.all: the values in the reverse of the promises' order.
PromiseAllReversed(futures) == [k \in 1..Len(futures) |-> futures[Len(futures) + 1 - k]]

\* await Promise.all(responsePromises): the values, in the order of the
\* promises.
PromiseAll(futures) == futures

\* The rest of collectJsonResponses and jsonResponse: one object for one
\* response, the array otherwise, with status 200.
jsonResponse(o, responses) ==
    [o EXCEPT !.status = 200, !.body = responses, !.single = (Len(responses) = 1)]

\* --------------------------------------------------------- DELETE, other

handleDeleteResponse(sessionIdHeader) ==
    IF sessionIdGenerator
    THEN IF sessionIdHeader = Undefined
         THEN jsonRpcError(400, -32000, "Bad Request: Missing Mcp-Session-Id header")
         ELSE IF sessionIdHeader # sessionId
         THEN jsonRpcError(404, -32001, "Session not found")
         ELSE [NoOut EXCEPT !.status = 204]
    ELSE jsonRpcError(405, -32000, "Method not allowed.")

\* A wrong handleDeleteRequest: one that ends the session before it looks
\* at the session header.
handleDeleteRequestEager(sessionIdHeader) ==
    /\ sessionId' = Undefined
    /\ _initialized' = FALSE
    /\ UNCHANGED <<generated, _standaloneStream, _streams, _requestToStream,
                   _pendingJsonResponses, sinks, posts>>

\* A wrong handleDeleteRequest: one that forgets the standalone stream of
\* the session it ends.
handleDeleteRequestUnpointing(sessionIdHeader) ==
    /\ IF handleDeleteResponse(sessionIdHeader).status = 204
       THEN /\ sessionId' = Undefined
            /\ _initialized' = FALSE
            /\ _standaloneStream' = Undefined
       ELSE UNCHANGED <<sessionId, _initialized, _standaloneStream>>
    /\ UNCHANGED <<generated, _streams, _requestToStream, _pendingJsonResponses,
                   sinks, posts>>

\* A wrong handleDeleteRequest: one that drops the request-bound streams
\* of the session it ends.
handleDeleteRequestDropping(sessionIdHeader) ==
    /\ IF handleDeleteResponse(sessionIdHeader).status = 204
       THEN /\ sessionId' = Undefined
            /\ _initialized' = FALSE
            /\ _streams' = {}
            /\ _requestToStream' = <<>>
       ELSE UNCHANGED <<sessionId, _initialized, _streams, _requestToStream>>
    /\ UNCHANGED <<generated, _standaloneStream, _pendingJsonResponses, sinks, posts>>

handleDeleteRequest(sessionIdHeader) ==
    /\ IF handleDeleteResponse(sessionIdHeader).status = 204
       THEN /\ sessionId' = Undefined
            /\ _initialized' = FALSE
       ELSE UNCHANGED <<sessionId, _initialized>>
    /\ UNCHANGED <<generated, _standaloneStream, _streams, _requestToStream,
                   _pendingJsonResponses, sinks, posts>>

handleUnsupportedResponse == jsonRpcError(405, -32000, "Method not allowed.")

handleUnsupportedRequest == UNCHANGED <<transportVars, posts>>

\* handleRequest: the switch on request.method.  The request carries its
\* headers whether the handler reads them or not.
handleRequestResponse(method, sessionIdHeader) ==
    CASE method = "GET" -> handleGetResponse
      [] method = "DELETE" -> handleDeleteResponse(sessionIdHeader)
      [] OTHER -> handleUnsupportedResponse

handleRequest(method, sessionIdHeader) ==
    CASE method = "GET" -> handleGetRequest
      [] method = "DELETE" -> handleDeleteRequest(sessionIdHeader)
      [] OTHER -> handleUnsupportedRequest

\* ------------------------------------------------------------------ send

isReply(message) == isJSONRPCResponse(message) \/ isJSONRPCError(message)

\* let requestId = options?.relatedRequestId; a response or an error
\* replaces it with its own id.
requestIdOf(message, relatedRequestId) ==
    IF isReply(message) THEN message.id ELSE relatedRequestId

\* writeSseEvent: controller.enqueue throws a TypeError unless the stream is
\* readable and its close has not been requested.
CanEnqueue(streamId) == sinks[streamId].state = "open"

\* A wrong send(): one that returns where it should throw.
sendSwallows(error) == NoOut

sendThrows(error) == [NoOut EXCEPT !.threw = error]

\* What one call of send() does: the error it throws, the sink it writes
\* to, the controller it closes, the future it resolves and, when that was
\* the last future of a POST, the HTTP response that POST returns.
sendOutcome(message, relatedRequestId) ==
    LET requestId == requestIdOf(message, relatedRequestId)
    IN
    IF requestId = Undefined
    THEN IF isReply(message)
         THEN sendThrows("Cannot send a response without a related request.")
         ELSE IF _standaloneStream # Undefined
         THEN IF CanEnqueue(_standaloneStream)
              THEN [NoOut EXCEPT !.wrote = _standaloneStream]
              ELSE sendThrows("TypeError")
         ELSE NoOut
    ELSE IF _enableJsonResponse
    THEN IF requestId \in DOMAIN _pendingJsonResponses
         THEN LET pending == _pendingJsonResponses[requestId]
                  futures == [posts[pending[1]].futures EXCEPT ![pending[2]] = message]
                  resolved == [NoOut EXCEPT !.resolved = pending]
              IN IF Settled(futures) THEN jsonResponse(resolved, PromiseAll(futures))
                 ELSE resolved
         ELSE NoOut
    ELSE LET streamId == IF requestId \in DOMAIN _requestToStream
                         THEN _requestToStream[requestId] ELSE Undefined
         IN IF streamId = Undefined \/ streamId \notin _streams
            THEN sendThrows("No connection established for request ID")
            ELSE IF ~CanEnqueue(streamId)
            THEN sendThrows("TypeError")
            ELSE [NoOut EXCEPT !.wrote = streamId,
                     !.closed = IF isReply(message) /\ sinks[streamId].pendingIds \ {requestId} = {}
                                THEN {streamId} ELSE {}]

send(message, relatedRequestId) ==
    LET requestId == requestIdOf(message, relatedRequestId)
        o == sendOutcome(message, relatedRequestId)
    IN
    IF o.resolved # <<>>
    THEN LET p == o.resolved[1]
         IN /\ posts' = IF o.status = 200 THEN [posts EXCEPT ![p] = IdlePost]
                        ELSE [posts EXCEPT ![p].futures[o.resolved[2]] = message]
            /\ _pendingJsonResponses' = MapDelete(_pendingJsonResponses, requestId)
            /\ UNCHANGED <<_initialized, sessionId, generated, _standaloneStream,
                           _streams, _requestToStream, sinks>>
    ELSE IF o.wrote # Undefined /\ requestId # Undefined
    THEN /\ sinks' = [sinks EXCEPT ![o.wrote] =
                [@ EXCEPT !.pendingIds = IF isReply(message) THEN @ \ {requestId} ELSE @,
                          !.state = IF o.closed # {} THEN "closed" ELSE @]]
         /\ _requestToStream' = IF isReply(message) THEN MapDelete(_requestToStream, requestId)
                                ELSE _requestToStream
         /\ _streams' = _streams \ o.closed
         /\ UNCHANGED <<_initialized, sessionId, generated, _standaloneStream,
                        _pendingJsonResponses, posts>>
    ELSE UNCHANGED <<transportVars, posts>>

\* --------------------------------------------------------- cancel, close

\* A wrong cancel callback: one that leaves the maps and the pointer as
\* they are.
CancelNoPurge(streamId) ==
    /\ streamId \in 1..Len(sinks)
    /\ sinks[streamId].state = "open"
    /\ sinks' = [sinks EXCEPT ![streamId] = [@ EXCEPT !.state = "cancelled"]]
    /\ UNCHANGED <<_initialized, sessionId, generated, _standaloneStream, _streams,
                   _requestToStream, _pendingJsonResponses, posts>>

\* The peer cancels ReadableStream `streamId`: the stream runs its cancel
\* callback if it is still readable.  A peer is taken to have read what was
\* queued before it abandons a stream whose controller has been closed, so
\* the callback runs for open streams only.  The pendingIds Set of a stream
\* that is cancelled is garbage from then on and is not kept.
Cancel(streamId) ==
    /\ streamId \in 1..Len(sinks)
    /\ sinks[streamId].state = "open"
    /\ sinks' = [sinks EXCEPT ![streamId] = [@ EXCEPT !.state = "cancelled", !.pendingIds = {}]]
    /\ IF sinks[streamId].kind = "standalone"
       THEN /\ _standaloneStream' = Undefined
            /\ UNCHANGED <<_streams, _requestToStream>>
       ELSE /\ _streams' = _streams \ {streamId}
            /\ _requestToStream' = MapDeleteAll(_requestToStream, sinks[streamId].pendingIds)
            /\ UNCHANGED _standaloneStream
    /\ UNCHANGED <<_initialized, sessionId, generated, _pendingJsonResponses, posts>>

\* A wrong close(): one that closes no controller.
ClosedByCloseNone == {}

\* The sinks close() closes: stream.controller.close() for the values of
\* this._streams (a controller that is not open throws, which is ignored).
ClosedByClose == {s \in _streams : sinks[s].state = "open"}

closeOutcome == [NoOut EXCEPT !.closed = ClosedByClose, !.onclose = 1]

\* The pendingIds Set of a stream that close() has closed is garbage from
\* then on and is not kept.
close ==
    /\ sinks' = [s \in 1..Len(sinks) |->
                    IF s \in closeOutcome.closed
                    THEN [sinks[s] EXCEPT !.state = "closed", !.pendingIds = {}]
                    ELSE sinks[s]]
    /\ _streams' = {}
    /\ _requestToStream' = <<>>
    /\ _pendingJsonResponses' = <<>>
    /\ _standaloneStream' = Undefined
    /\ UNCHANGED <<_initialized, sessionId, generated, posts>>

\* ------------------------------------------------------------ behaviours

Methods == {"GET", "DELETE", "PUT"}

Next ==
    \/ \E method \in Methods, sessionIdHeader \in SessionHeaders :
          handleRequest(method, sessionIdHeader) /\ UNCHANGED <<configVars, owed, moduleVars>>
    \/ \E p \in Posts, accept \in AcceptHeaders, contentType \in ContentTypes :
          PostBegin(p, accept, contentType) /\ UNCHANGED <<configVars, owed, moduleVars>>
    \/ \E p \in Posts, body \in Bodies, sessionIdHeader \in SessionHeaders,
          versionHeader \in VersionHeaders :
          PostResume(p, body, sessionIdHeader, versionHeader) /\ UNCHANGED <<configVars, owed, moduleVars>>
    \/ \E message \in ServerMessages, relatedRequestId \in RequestIds \cup {Undefined} :
          send(message, relatedRequestId) /\ UNCHANGED <<configVars, owed, moduleVars>>
    \/ \E streamId \in StreamIds : Cancel(streamId) /\ UNCHANGED <<configVars, owed, moduleVars>>
    \/ close /\ UNCHANGED <<configVars, owed, moduleVars>>

Spec == Init /\ [][Next]_vars

\* ------------------------------------------------ DNS-rebinding protection

\* Values of the Host and Origin headers: absent (null or empty), a name on
\* the allow-list when the list has entries, and a name on no list.
HostHeaders == {"absent", "listed.example", "other.example"}
OriginHeaders == {"absent", "listed.example", "other.example"}
AllowLists == SUBSET {"listed.example"}

\* Returns the error text, "" for undefined.
validateRequestHeaders(host, origin) ==
    IF ~_enableDnsRebindingProtection THEN ""
    ELSE IF _allowedHosts # {} /\ (host = "absent" \/ host \notin _allowedHosts)
    THEN "Bad Request: Invalid Host header"
    ELSE IF _allowedOrigins # {} /\ origin # "absent" /\ origin \notin _allowedOrigins
    THEN "Bad Request: Invalid Origin header"
    ELSE ""

\* handleRequest from its first statement: the response is the validation
\* error, or what the verb's handler returns.
validatedResponse(host, origin, response) ==
    IF validateRequestHeaders(host, origin) # ""
    THEN jsonRpcError(400, -32000, validateRequestHeaders(host, origin))
    ELSE response

handleValidatedRequest(method, host, origin, sessionIdHeader) ==
    IF validateRequestHeaders(host, origin) # ""
    THEN UNCHANGED <<transportVars, posts>>
    ELSE handleRequest(method, sessionIdHeader)

ValidatedPostBegin(p, host, origin, accept, contentType) ==
    IF validateRequestHeaders(host, origin) # ""
    THEN UNCHANGED <<transportVars, posts>>
    ELSE PostBegin(p, accept, contentType)

\* A transport constructed with any of the DNS-rebinding options.
InitDns ==
    /\ ModulesLoaded
    /\ sessionIdGenerator \in BOOLEAN
    /\ _enableJsonResponse \in BOOLEAN
    /\ _enableDnsRebindingProtection \in BOOLEAN
    /\ _allowedHosts \in AllowLists
    /\ _allowedOrigins \in AllowLists
    /\ Constructed

\* The requests of the HTTP peers, with their Host and Origin headers.
NextDns ==
    \/ \E method \in Methods, host \in HostHeaders, origin \in OriginHeaders,
          sessionIdHeader \in SessionHeaders :
          handleValidatedRequest(method, host, origin, sessionIdHeader)
             /\ UNCHANGED <<configVars, owed, moduleVars>>
    \/ \E p \in Posts, host \in HostHeaders, origin \in OriginHeaders,
          accept \in AcceptHeaders, contentType \in ContentTypes :
          ValidatedPostBegin(p, host, origin, accept, contentType)
             /\ UNCHANGED <<configVars, owed, moduleVars>>
    \/ \E p \in Posts, body \in Bodies, sessionIdHeader \in SessionHeaders,
          versionHeader \in VersionHeaders :
          PostResume(p, body, sessionIdHeader, versionHeader) /\ UNCHANGED <<configVars, owed, moduleVars>>

SpecDns == InitDns /\ [][NextDns]_vars

\* ------------------------------------------------- a disciplined handler

\* How many of `messages` are requests with id i.
Handed(messages, i) ==
    Cardinality({k \in 1..Len(messages) : isJSONRPCRequest(messages[k]) /\ messages[k].id = i})

\* A POST whose messages the server core receives through onmessage: the
\* core owes one reply for every request it is handed.
ServerReceives(p, body, sessionIdHeader, versionHeader) ==
    LET dispatched == postResumeResponse(body, sessionIdHeader, versionHeader).dispatched
    IN /\ PostResume(p, body, sessionIdHeader, versionHeader)
       /\ \A i \in RequestIds : owed[i] + Handed(dispatched, i) <= MaxOwed
       /\ owed' = [i \in RequestIds |-> owed[i] + Handed(dispatched, i)]

\* The server core answers a request it was handed: it calls send() with a
\* response or an error carrying the request's id, once per request,
\* whether or not send() throws.
ServerReplies(message) ==
    /\ isReply(message)
    /\ owed[message.id] > 0
    /\ send(message, Undefined)
    /\ owed' = [owed EXCEPT ![message.id] = @ - 1]

\* No stream is cancelled, close() is not called, and send() is called only
\* to answer the requests handed over.
NextQuiet ==
    \/ \E method \in Methods, sessionIdHeader \in SessionHeaders :
          handleRequest(method, sessionIdHeader) /\ UNCHANGED <<configVars, owed, moduleVars>>
    \/ \E p \in Posts, accept \in AcceptHeaders, contentType \in ContentTypes :
          PostBegin(p, accept, contentType) /\ UNCHANGED <<configVars, owed, moduleVars>>
    \/ \E p \in Posts, body \in Bodies, sessionIdHeader \in SessionHeaders,
          versionHeader \in VersionHeaders :
          ServerReceives(p, body, sessionIdHeader, versionHeader) /\ UNCHANGED <<configVars, moduleVars>>
    \/ \E message \in ServerMessages : ServerReplies(message) /\ UNCHANGED <<configVars, moduleVars>>

SpecQuiet == Init /\ [][NextQuiet]_vars

\* ------------------------------------------------- the worker entry point

\* fetch after `await initWorker(env)` has returned `state`: 404 for another
\* path, 401 when a PAT is required and the request carries no token;
\* otherwise the request is handed to state.transport.handleRequest, where
\* the call waits for the transport's response.
serve(f, transport, pathMatches, unauthorized) ==
    IF ~pathMatches \/ unauthorized
    THEN /\ fetches' = [fetches EXCEPT ![f] = IdleFetch]
         /\ UNCHANGED handledBy
    ELSE /\ fetches' = [fetches EXCEPT ![f] = [pc |-> "handling", transport |-> transport]]
         /\ handledBy' = handledBy \cup {transport}

\* A fetch call from its start to its first suspension point.  initWorker
\* returns cachedState when it is set, throws when ADO_ORG is missing, and
\* otherwise builds an McpServer and a transport and suspends at
\* `await server.connect(transport)`, before cachedState is assigned.
fetchBegin(f, pathMatches, unauthorized) ==
    /\ fetches[f].pc = "idle"
    /\ IF cachedState # Undefined
       THEN /\ serve(f, cachedState, pathMatches, unauthorized)
            /\ UNCHANGED <<cachedState, created>>
       ELSE IF ~ADO_ORG
       THEN UNCHANGED <<cachedState, created, fetches, handledBy>>
       ELSE /\ created < MaxTransports
            /\ created' = created + 1
            /\ fetches' = [fetches EXCEPT ![f] =
                              [pc |-> "connecting", transport |-> created + 1]]
            /\ UNCHANGED <<cachedState, handledBy>>
    /\ UNCHANGED ADO_ORG

\* The resumption of initWorker after server.connect: cachedState is
\* assigned the WorkerState of this call and returned, and fetch goes on
\* with it.
fetchConnected(f, pathMatches, unauthorized) ==
    /\ fetches[f].pc = "connecting"
    /\ cachedState' = fetches[f].transport
    /\ serve(f, fetches[f].transport, pathMatches, unauthorized)
    /\ UNCHANGED <<ADO_ORG, created>>

\* state.transport.handleRequest settles and fetch returns its response.
fetchReturn(f) ==
    /\ fetches[f].pc = "handling"
    /\ fetches' = [fetches EXCEPT ![f] = IdleFetch]
    /\ UNCHANGED <<ADO_ORG, cachedState, created, handledBy>>

\* The transport of the worker specifications: as constructed, not driven.
TransportUnused ==
    /\ sessionIdGenerator = FALSE
    /\ _enableJsonResponse = FALSE
    /\ _enableDnsRebindingProtection = FALSE
    /\ _allowedHosts = {}
    /\ _allowedOrigins = {}
    /\ Constructed

InitWorker ==
    /\ TransportUnused
    /\ ProviderCreated
    /\ ADO_ORG \in BOOLEAN
    /\ WorkerLoaded
    /\ token = <<>>
    /\ scheme = "bearer"
    /\ AuthUncalled
    /\ UnlinkUncalled

otherThanWorker == <<configVars, transportVars, posts, owed, authVars, unlinkVars, providerVars>>

NextWorker ==
    \/ \E f \in Fetches, pathMatches \in BOOLEAN, unauthorized \in BOOLEAN :
          fetchBegin(f, pathMatches, unauthorized) /\ UNCHANGED otherThanWorker
    \/ \E f \in Fetches, pathMatches \in BOOLEAN, unauthorized \in BOOLEAN :
          fetchConnected(f, pathMatches, unauthorized) /\ UNCHANGED otherThanWorker
    \/ \E f \in Fetches : fetchReturn(f) /\ UNCHANGED otherThanWorker

SpecWorker == InitWorker /\ [][NextWorker]_vars

\* ------------------------------------------------------- shared/ado-auth

\* Longest token, in characters.
MaxTokenLen == 3

\* Character codes.  The tokens are drawn from a letter, a digit, the colon
\* and the space: all ASCII, so the UTF-8 encoding of a string is the
\* sequence of its character codes.
SPACE == 32
COLON == 58
EQUALS == 61
TokenChars == {97, 49, COLON, SPACE}
Tokens == SeqsUpTo(TokenChars, MaxTokenLen)
AuthSchemes == {"bearer", "pat"}

\* "Bearer ", "Basic ", and the scheme names parseAuthorizationHeader knows.
BearerPrefix == <<66, 101, 97, 114, 101, 114, SPACE>>
BasicPrefix == <<66, 97, 115, 105, 99, SPACE>>
bearer == <<98, 101, 97, 114, 101, 114>>
pat == <<112, 97, 116>>
basic == <<98, 97, 115, 105, 99>>

\* String.prototype.toLowerCase on ASCII.
toLowerCase(chars) ==
    [k \in 1..Len(chars) |-> IF chars[k] \in 65..90 THEN chars[k] + 32 ELSE chars[k]]

\* String.prototype.split(separator): the pieces between the separators.
RECURSIVE splitFrom(_, _, _, _)
splitFrom(chars, separator, k, piece) ==
    IF k > Len(chars) THEN <<piece>>
    ELSE IF chars[k] = separator
    THEN <<piece>> \o splitFrom(chars, separator, k + 1, <<>>)
    ELSE splitFrom(chars, separator, k + 1, Append(piece, chars[k]))

split(chars, separator) == splitFrom(chars, separator, 1, <<>>)

\* String.prototype.split(separator, limit): the first `limit` pieces.
splitLimit(chars, separator, limit) ==
    LET pieces == split(chars, separator)
    IN IF Len(pieces) <= limit THEN pieces ELSE SubSeq(pieces, 1, limit)

\* String.prototype.trim for the one whitespace character of the alphabet.
RECURSIVE trimStart(_)
trimStart(chars) ==
    IF chars # <<>> /\ Head(chars) = SPACE THEN trimStart(Tail(chars)) ELSE chars

RECURSIVE trimEnd(_)
trimEnd(chars) ==
    IF chars # <<>> /\ chars[Len(chars)] = SPACE
    THEN trimEnd(SubSeq(chars, 1, Len(chars) - 1))
    ELSE chars

trim(chars) == trimEnd(trimStart(chars))

\* The base64 alphabet: the character of a 6-bit value, and back (64 for a
\* character outside the alphabet).
base64Char(v) ==
    IF v < 26 THEN 65 + v
    ELSE IF v < 52 THEN 97 + (v - 26)
    ELSE IF v < 62 THEN 48 + (v - 52)
    ELSE IF v = 62 THEN 43
    ELSE 47

base64Value(c) ==
    IF c \in 65..90 THEN c - 65
    ELSE IF c \in 97..122 THEN c - 97 + 26
    ELSE IF c \in 48..57 THEN c - 48 + 52
    ELSE IF c = 43 THEN 62
    ELSE IF c = 47 THEN 63
    ELSE 64

\* Buffer.from(string, "utf8").toString("base64"): three bytes to four
\* characters, the last group padded with "=".
RECURSIVE toBase64(_)
toBase64(bytes) ==
    IF bytes = <<>> THEN <<>>
    ELSE IF Len(bytes) = 1
    THEN <<base64Char(bytes[1] \div 4), base64Char((bytes[1] % 4) * 16), EQUALS, EQUALS>>
    ELSE IF Len(bytes) = 2
    THEN <<base64Char(bytes[1] \div 4),
           base64Char((bytes[1] % 4) * 16 + bytes[2] \div 16),
           base64Char((bytes[2] % 16) * 4), EQUALS>>
    ELSE <<base64Char(bytes[1] \div 4),
           base64Char((bytes[1] % 4) * 16 + bytes[2] \div 16),
           base64Char((bytes[2] % 16) * 4 + bytes[3] \div 64),
           base64Char(bytes[3] % 64)>> \o toBase64(SubSeq(bytes, 4, Len(bytes)))

\* The 6-bit values of the characters of the base64 alphabet in a string;
\* the other characters, the padding included, are skipped.
RECURSIVE sextetsOf(_)
sextetsOf(chars) ==
    IF chars = <<>> THEN <<>>
    ELSE IF base64Value(Head(chars)) = 64 THEN sextetsOf(Tail(chars))
    ELSE <<base64Value(Head(chars))>> \o sextetsOf(Tail(chars))

RECURSIVE bytesOf(_)
bytesOf(v) ==
    IF Len(v) < 2 THEN <<>>
    ELSE IF Len(v) = 2 THEN <<v[1] * 4 + v[2] \div 16>>
    ELSE IF Len(v) = 3
    THEN <<v[1] * 4 + v[2] \div 16, (v[2] % 16) * 16 + v[3] \div 4>>
    ELSE <<v[1] * 4 + v[2] \div 16, (v[2] % 16) * 16 + v[3] \div 4, (v[3] % 4) * 64 + v[4]>>
            \o bytesOf(SubSeq(v, 5, Len(v)))

\* Buffer.from(string, "base64").toString("utf8")
fromBase64(chars) == bytesOf(sextetsOf(chars))

formatAuthorizationHeader(t, s) ==
    IF s = "pat" THEN BasicPrefix \o toBase64(<<COLON>> \o t)
    ELSE BearerPrefix \o t

parseAuthorizationHeader(h) ==
    IF h.state # "string" \/ h.value = <<>> THEN NoString
    ELSE LET pieces == split(h.value, SPACE)
             rawScheme == pieces[1]
             rawToken == IF Len(pieces) >= 2 THEN pieces[2] ELSE <<>>
         IN IF rawScheme = <<>> \/ rawToken = <<>> THEN NoString
            ELSE IF toLowerCase(rawScheme) \in {bearer, pat} THEN String(trim(rawToken))
            ELSE IF toLowerCase(rawScheme) = basic
            THEN LET decoded == fromBase64(rawToken)
                     parts == splitLimit(decoded, COLON, 2)
                 IN IF Len(parts) = 2 THEN String(parts[2]) ELSE String(decoded)
            ELSE NoString

\* The client formats its token, and the worker parses the header it gets.
Format ==
    /\ headerValue = Unset
    /\ headerValue' = String(formatAuthorizationHeader(token, scheme))
    /\ UNCHANGED <<token, scheme, parsedToken>>

Parse ==
    /\ headerValue # Unset
    /\ parsedToken = Unset
    /\ parsedToken' = parseAuthorizationHeader(headerValue)
    /\ UNCHANGED <<token, scheme, headerValue>>

InitAuth ==
    /\ TransportUnused
    /\ ProviderCreated
    /\ ADO_ORG = TRUE
    /\ WorkerLoaded
    /\ token \in Tokens
    /\ scheme \in AuthSchemes
    /\ AuthUncalled
    /\ UnlinkUncalled

otherThanAuth == <<configVars, transportVars, posts, owed, workerVars, unlinkVars, providerVars>>

NextAuth ==
    \/ Format /\ UNCHANGED otherThanAuth
    \/ Parse /\ UNCHANGED otherThanAuth

SpecAuth == InitAuth /\ [][NextAuth]_vars

\* ------------------------------------------- tools: work-item unlink

\* Most relations a work item has.
MaxRelations == 2

\* Two of the link type names of the schema, and their reference names.
LinkTypeNames == {"related", "parent"}

getLinkTypeFromName(name) ==
    IF name = "parent" THEN "System.LinkTypes.Hierarchy-Reverse"
    ELSE "System.LinkTypes.Related"

\* The urls relations point to, and the values of the optional url
\* argument: undefined, the empty string, a blank string, or a url.
RelationUrls == {"https://a", "https://b"}
UrlArguments == {"absent", "", " "} \cup RelationUrls

WorkItemRelations ==
    [rel : {getLinkTypeFromName(name) : name \in LinkTypeNames}, url : RelationUrls]

\* url && url.trim().length > 0
urlGiven(u) == u \notin {"absent", "", " "}

Selected(indexes) == [state |-> "selected", value |-> indexes]

\* relations.map((relation, idx) => (test ? idx : -1)).filter((idx) => idx !== -1)
\* with the test of the branch taken; the indexes count from 0.
RECURSIVE relationIndexesFrom(_, _, _, _)
relationIndexesFrom(rs, linkType, u, k) ==
    IF k > Len(rs) THEN <<>>
    ELSE LET matches == IF urlGiven(u) THEN rs[k].url = u ELSE rs[k].rel = linkType
         IN (IF matches THEN <<k - 1>> ELSE <<>>) \o relationIndexesFrom(rs, linkType, u, k + 1)

\* The handler of wit_work_item_unlink up to the choice of the relations.
unlink ==
    /\ relationIndexes = Unset
    /\ relationIndexes' =
          Selected(relationIndexesFrom(relations, getLinkTypeFromName(type), url, 1))
    /\ UNCHANGED <<relations, type, url>>

InitUnlink ==
    /\ TransportUnused
    /\ ProviderCreated
    /\ ADO_ORG = TRUE
    /\ WorkerLoaded
    /\ token = <<>>
    /\ scheme = "bearer"
    /\ AuthUncalled
    /\ relations \in SeqsUpTo(WorkItemRelations, MaxRelations)
    /\ type \in LinkTypeNames
    /\ url \in UrlArguments
    /\ relationIndexes = Unset

otherThanUnlink == <<configVars, transportVars, posts, owed, workerVars, authVars, providerVars>>

NextUnlink == unlink /\ UNCHANGED otherThanUnlink

SpecUnlink == InitUnlink /\ [][NextUnlink]_vars

\* -------------------------------------- the client-secret token provider

\* Access tokens the token endpoint hands out in one behaviour: 1..MaxTokens.
MaxTokens == 2

expiresEarlyMs == 2 * 60 * 1000

\* The instants at which the clock is read: around the ends of the
\* lifetimes of 180 s and of 3600 s of a token acquired at 0.
Times == {0, 59999, 60000, 3479999, 3480000}

\* Values of payload.expires_in: missing (or null), a number, or a string,
\* which is the sequence of its characters.
Characters == {"0", "1", "3", "5", "6", "8", "-", "s"}
DigitChars == <<"0", "1", "2", "3", "4", "5", "6", "7", "8", "9">>
isDigit(c) == \E v \in 1..10 : DigitChars[v] = c
digitValue(c) == (CHOOSE v \in 1..10 : DigitChars[v] = c) - 1

ExpiresInValues ==
    {[type |-> "missing", num |-> 0, chars |-> <<>>]}
        \cup {[type |-> "number", num |-> n, chars |-> <<>>] : n \in {-60, 0, 180}}
        \cup {[type |-> "string", num |-> 0, chars |-> q] :
                 q \in {<<"1", "8", "0">>, <<"1", "8", "0", "s">>, <<"s">>, <<"-", "5">>, <<>>}}

\* What the token endpoint answers: response.ok, whether the body is JSON,
\* payload.access_token (Undefined: missing or empty) and payload.expires_in.
Responses ==
    [ok : BOOLEAN, json : BOOLEAN, access_token : 0..MaxTokens, expires_in : ExpiresInValues]

NaN == [nan |-> TRUE, value |-> 0]
Number(v) == [nan |-> FALSE, value |-> v]

\* The digits a string starts with, read as a decimal number from `value`.
RECURSIVE leadingDigits(_, _)
leadingDigits(chars, value) ==
    IF chars = <<>> \/ ~isDigit(Head(chars)) THEN value
    ELSE leadingDigits(Tail(chars), value * 10 + digitValue(Head(chars)))

\* Number.parseInt(string, 10): an optional sign and the digits that
\* follow it, up to the first character that is no digit; NaN without a
\* digit there.
parseInt(chars) ==
    LET negative == chars # <<>> /\ Head(chars) = "-"
        rest == IF negative THEN Tail(chars) ELSE chars
    IN IF rest = <<>> \/ ~isDigit(Head(rest)) THEN NaN
       ELSE Number((IF negative THEN -1 ELSE 1) * leadingDigits(rest, 0))

\* typeof payload.expires_in === "number" ? payload.expires_in
\*     : Number.parseInt(String(payload.expires_in ?? "3600"), 10)
expiresInSeconds(e) ==
    IF e.type = "number" THEN Number(e.num)
    ELSE IF e.type = "missing" THEN parseInt(<<"3", "6", "0", "0">>)
    ELSE parseInt(e.chars)

\* A wrong provider: one that takes expires_in as it comes.
safeExpiresInSecondsUnchecked(e) == expiresInSeconds(e).value

safeExpiresInSeconds(e) ==
    IF ~expiresInSeconds(e).nan /\ expiresInSeconds(e).value > 0
    THEN expiresInSeconds(e).value
    ELSE 3600

\* cache && Date.now() < cache.expiresAtMs - expiresEarlyMs
fresh == cache.set /\ now < cache.expiresAtMs - expiresEarlyMs

\* !response.ok || !payload?.access_token, or response.json() throws.
failed(response) == ~response.json \/ ~response.ok \/ response.access_token = Undefined

\* What a call of the provider does up to its first suspension point:
\* it returns the cached token, or it sends the token request.
callOutcome ==
    IF fresh THEN [returned |-> cache.accessToken, fetched |-> FALSE, threw |-> FALSE]
    ELSE [returned |-> Undefined, fetched |-> TRUE, threw |-> FALSE]

\* What the call does when the token endpoint has answered.
fetchedOutcome(response) ==
    IF failed(response) THEN [returned |-> Undefined, fetched |-> TRUE, threw |-> TRUE]
    ELSE [returned |-> response.access_token, fetched |-> TRUE, threw |-> FALSE]

callProvider(c) ==
    /\ calls[c] = "idle"
    /\ calls' = IF callOutcome.fetched THEN [calls EXCEPT ![c] = "fetching"] ELSE calls
    /\ UNCHANGED <<cache, now>>

fetched(c, response) ==
    /\ calls[c] = "fetching"
    /\ calls' = [calls EXCEPT ![c] = "idle"]
    /\ cache' = IF failed(response) THEN cache
                ELSE [set |-> TRUE, accessToken |-> response.access_token,
                      expiresAtMs |-> now + safeExpiresInSeconds(response.expires_in) * 1000]
    /\ UNCHANGED now

\* Time passes.
tick(t) ==
    /\ t > now
    /\ now' = t
    /\ UNCHANGED <<cache, calls>>

InitProvider ==
    /\ TransportUnused
    /\ ADO_ORG = TRUE
    /\ WorkerLoaded
    /\ token = <<>>
    /\ scheme = "bearer"
    /\ AuthUncalled
    /\ UnlinkUncalled
    /\ ProviderCreated

otherThanProvider ==
    <<configVars, transportVars, posts, owed, workerVars, authVars, unlinkVars>>

NextProvider ==
    \/ \E c \in Calls : callProvider(c) /\ UNCHANGED otherThanProvider
    \/ \E c \in Calls, response \in Responses :
          fetched(c, response) /\ UNCHANGED otherThanProvider
    \/ \E t \in Times : tick(t) /\ UNCHANGED otherThanProvider

SpecProvider == InitProvider /\ [][NextProvider]_vars

\* ---------------------------------------------------------------- claims

Replies == {message \in ServerMessages : isReply(message)}
RelatedRequestIds == RequestIds \cup {Undefined}

\* C1: in SSE mode, a response or error sent with a request id that a
\* registered stream still awaits is written to that stream, and the send
\* closes and deregisters the stream exactly when that id is the last one
\* the stream awaits.
C1_ReplyReachesItsStream ==
    ~_enableJsonResponse =>
        \A s \in _streams : \A i \in sinks[s].pendingIds :
            \A message \in {m \in Replies : m.id = i} :
                LET o == sendOutcome(message, Undefined)
                IN /\ o.wrote = s
                   /\ o.closed = IF sinks[s].pendingIds = {i} THEN {s} ELSE {}

\* C2: in JSON-response mode, the POST that returns carries status 200 and
\* a body with one element per request of the POST, the k-th element being
\* the message that fulfilled the k-th future, in the order of the request
\* ids of the body and not in the order of the sends; the body is a single
\* object exactly when the POST carried one request.
C2_JsonBodyInRequestOrder ==
    \A message \in ServerMessages, relatedRequestId \in RelatedRequestIds :
        LET o == sendOutcome(message, relatedRequestId)
        IN o.status = 200 =>
              LET p == o.resolved[1]
                  N == Len(posts[p].ids)
              IN /\ _enableJsonResponse
                 /\ Len(o.body) = N
                 /\ o.single = (N = 1)
                 /\ \A k \in 1..N :
                       o.body[k] = IF k = o.resolved[2] THEN message ELSE posts[p].futures[k]

\* C2 witness: a POST with two requests is about to return, its first
\* request being the last to be answered.
C2_OutOfOrderReturn ==
    \E message \in Replies :
        LET o == sendOutcome(message, Undefined)
        IN /\ o.status = 200
           /\ Len(o.body) = 2
           /\ o.resolved[2] = 1
           /\ isReply(o.body[2])
           /\ o.body[1].id # o.body[2].id

\* C3: in JSON-response mode, a message passed to send() fulfils the future
\* of a request only if it is a response or an error whose own id is that
\* request's id.
C3_FutureTakesMatchingReply ==
    _enableJsonResponse =>
        \A message \in ServerMessages, relatedRequestId \in RelatedRequestIds :
            LET o == sendOutcome(message, relatedRequestId)
            IN o.resolved # <<>> =>
                  /\ isReply(message)
                  /\ message.id = posts[o.resolved[1]].ids[o.resolved[2]]

\* C4: in SSE mode with a disciplined handler, a request-bound stream stays
\* registered only while the handler still owes a reply to one of the
\* requests the stream awaits.
C4_StreamsDrain ==
    ~_enableJsonResponse =>
        \A s \in _streams : \E i \in sinks[s].pendingIds : owed[i] > 0

\* C5: in JSON-response mode with a disciplined handler, a POST is still
\* awaiting its futures only while the handler owes a reply to one of its
\* request ids.
C5_JsonPostCompletes ==
    _enableJsonResponse =>
        \A p \in Posts :
            posts[p].phase = "awaiting" =>
                \E k \in 1..Len(posts[p].ids) : owed[posts[p].ids[k]] > 0

\* The bodies that parse, with and without an initialize message.
InitializeBodies ==
    {body \in Bodies : body.parsed = "ok" /\ isInitializationRequest(body.messages)}
PlainBodies ==
    {body \in Bodies : body.parsed = "ok" /\ ~isInitializationRequest(body.messages)}
Parsing == {p \in Posts : posts[p].phase = "parsing"}

\* C6: a POST with an initialize message that is accepted marks the
\* transport initialized and sets sessionId to the value the generator
\* returns, or to undefined when none is configured; while a session id is
\* assigned such a POST is answered 400 and leaves sessionId as it is; with
\* no generator sessionId is always undefined.
C6_InitializeAssignsSession ==
    /\ ~sessionIdGenerator => sessionId = Undefined
    /\ sessionId # Undefined => _initialized
    /\ \A p \in Parsing, body \in InitializeBodies, sessionIdHeader \in SessionHeaders,
          versionHeader \in VersionHeaders :
          LET verdict == postVerdict(body, sessionIdHeader, versionHeader)
          IN /\ sessionId # Undefined =>
                   /\ verdict.status = 400
                   /\ ~ENABLED (/\ PostResume(p, body, sessionIdHeader, versionHeader)
                                /\ sessionId' # sessionId)
             /\ verdict.status = 0 =>
                   ~ENABLED (/\ PostResume(p, body, sessionIdHeader, versionHeader)
                             /\ ~(/\ _initialized'
                                  /\ sessionId' = IF sessionIdGenerator THEN generated + 1
                                                  ELSE Undefined))

\* C6 witness: a second session id is assigned, after a DELETE and another
\* initialize, and a POST with an initialize message is about to be
\* answered 400.
C6_SessionAssignedAgain ==
    /\ sessionIdGenerator /\ _initialized
    /\ sessionId = 2
    /\ Parsing # {}
    /\ \E body \in InitializeBodies : postVerdict(body, sessionId, "absent").status = 400

\* C7: with a generator configured, a POST whose body has no initialize
\* message is answered 400 when it carries no session header and 404 with
\* code -32001 when its header is not the current session id, also when no
\* session is assigned; nothing is handed to onmessage and the transport's
\* state stays as it is.
C7_PostNeedsSession ==
    sessionIdGenerator =>
        \A p \in Parsing, body \in PlainBodies, sessionIdHeader \in SessionHeaders \ {sessionId},
           versionHeader \in VersionHeaders :
           LET response == postResumeResponse(body, sessionIdHeader, versionHeader)
           IN /\ IF sessionIdHeader = Undefined
                 THEN response.status = 400
                 ELSE response.status = 404 /\ response.code = -32001
              /\ response.dispatched = <<>>
              /\ response.stream = Undefined
              /\ ENABLED PostResume(p, body, sessionIdHeader, versionHeader)
              /\ ~ENABLED (/\ PostResume(p, body, sessionIdHeader, versionHeader)
                           /\ transportVars' # transportVars)

\* C7 witness: a generator is configured, the session it assigned has been
\* deleted, and a POST with a request is about to be answered 400 without
\* a session header and 404 with the deleted id.
C7_JudgedWithoutSession ==
    /\ sessionIdGenerator
    /\ sessionId = Undefined
    /\ generated > 0
    /\ Parsing # {}
    /\ \E body \in PlainBodies :
          /\ hasRequests(body.messages)
          /\ postResumeResponse(body, Undefined, "absent").status = 400
          /\ postResumeResponse(body, generated, "absent").status = 404

\* C8: while a session id is assigned, a GET, a DELETE or a POST without an
\* initialize message that carries no session header or another value than
\* the assigned id is answered with an error status and leaves the
\* transport's state as it is.
C8_EveryVerbNeedsSession ==
    sessionId # Undefined =>
        \A sessionIdHeader \in SessionHeaders \ {sessionId} :
            /\ \A method \in {"GET", "DELETE"} :
                  /\ handleRequestResponse(method, sessionIdHeader).status >= 400
                  /\ ~ENABLED (/\ handleRequest(method, sessionIdHeader)
                               /\ transportVars' # transportVars)
            /\ \A p \in Parsing, body \in PlainBodies, versionHeader \in VersionHeaders :
                  /\ postResumeResponse(body, sessionIdHeader, versionHeader).status >= 400
                  /\ ~ENABLED (/\ PostResume(p, body, sessionIdHeader, versionHeader)
                               /\ transportVars' # transportVars)

\* The session ids that were assigned and deleted.
OldSessionIds == (1..generated) \ {sessionId}

\* C9: with a generator configured, a DELETE carrying the current session
\* id is answered 204 and clears sessionId and the initialized flag; from
\* then on a request carrying the old id is answered 404, and a POST with
\* one initialize message is accepted.
C9_DeleteEndsSession ==
    sessionIdGenerator =>
        /\ sessionId # Undefined =>
              /\ handleDeleteResponse(sessionId).status = 204
              /\ ~ENABLED (/\ handleRequest("DELETE", sessionId)
                           /\ ~(sessionId' = Undefined /\ ~_initialized'))
        /\ \A old \in OldSessionIds :
              /\ \A method \in {"GET", "DELETE"} :
                    handleRequestResponse(method, old).status = 404
              /\ \A body \in PlainBodies, versionHeader \in VersionHeaders :
                    postVerdict(body, old, versionHeader).status = 404
        /\ sessionId = Undefined =>
              \A body \in InitializeBodies, versionHeader \in VersionHeaders :
                 Len(body.messages) = 1 =>
                    postVerdict(body, Undefined, versionHeader).status = 0

\* The standalone streams whose controller is open.
OpenStandaloneStreams ==
    {s \in 1..Len(sinks) : sinks[s].kind = "standalone" /\ sinks[s].state = "open"}

\* C10: at most one standalone stream is open; while one is open a GET is
\* answered 409 and leaves it in place, and while none is open a GET is
\* answered 200 and installs a new one.
C10_OneStandaloneStream ==
    /\ Cardinality(OpenStandaloneStreams) <= 1
    /\ IF OpenStandaloneStreams # {}
       THEN /\ handleGetResponse.status = 409
            /\ _standaloneStream \in OpenStandaloneStreams
       ELSE /\ handleGetResponse.status = 200
            /\ ~ENABLED (handleGetRequest /\ _standaloneStream' # NewStreamId)

\* C11: a call of close() closes the sink of every registered stream,
\* leaves the stream map, the reverse index, the pending-future map and the
\* standalone pointer empty, and calls onclose once; onclose is the last
\* statement of close(), so the state it finds is the state close() leaves.
C11_CloseClearsAll ==
    /\ closeOutcome.onclose = 1
    /\ closeOutcome.closed = _streams
    /\ ENABLED close
    /\ ~ENABLED (/\ close
                 /\ ~(/\ _streams' = {}
                      /\ _requestToStream' = <<>>
                      /\ _pendingJsonResponses' = <<>>
                      /\ _standaloneStream' = Undefined
                      /\ \A s \in _streams : sinks'[s].state = "closed"))

\* C11 witness: close() is called with a registered stream awaiting a
\* reply and a standalone stream installed.
C11_CloseWithStreams ==
    /\ closeOutcome.closed # {}
    /\ _requestToStream # <<>>
    /\ _standaloneStream # Undefined

\* C12: a call of close() while a standalone stream is installed closes
\* the sink of that stream.
C12_CloseEndsStandaloneStream ==
    _standaloneStream # Undefined =>
        /\ _standaloneStream \in closeOutcome.closed
        /\ ~ENABLED (close /\ sinks'[_standaloneStream].state = "open")

\* The maps send() routes by.
routingVars == <<_streams, _requestToStream, _pendingJsonResponses>>

\* C13: send() of a message that is no response and no error, with no
\* relatedRequestId, throws nothing, writes the message to the standalone
\* stream when one is open and to no stream otherwise, never writes to a
\* request-bound stream, and leaves the stream map, the reverse index and
\* the pending-future map as they are.
C13_UnrelatedNotification ==
    \A message \in ServerMessages \ Replies :
        LET o == sendOutcome(message, Undefined)
        IN /\ o.threw = ""
           /\ IF OpenStandaloneStreams # {}
              THEN o.wrote \in OpenStandaloneStreams
              ELSE o.wrote = Undefined
           /\ o.wrote \notin _streams
           /\ ~ENABLED (send(message, Undefined) /\ routingVars' # routingVars)

\* No stream (SSE mode) or future (JSON-response mode) awaits a reply with
\* this id.
Unroutable(id) ==
    IF _enableJsonResponse THEN id \notin DOMAIN _pendingJsonResponses
    ELSE ~\E s \in _streams : id \in sinks[s].pendingIds

\* C14 as stated: send() of a reply whose id has no open stream or no
\* pending future throws, in SSE mode and in JSON-response mode.
C14_UnroutableReplyThrows ==
    \A message \in Replies :
        Unroutable(message.id) => sendOutcome(message, Undefined).threw # ""

\* C14 amended: send() of a reply whose id has no open stream throws the
\* routing error in SSE mode; in JSON-response mode send() of a reply whose
\* id has no pending future returns without an error; in both modes the
\* transport's state stays as it is.
C14_UnroutableReplyBySseOnly ==
    \A message \in Replies :
        Unroutable(message.id) =>
            /\ sendOutcome(message, Undefined).threw =
                  IF _enableJsonResponse THEN ""
                  ELSE "No connection established for request ID"
            /\ ~ENABLED (/\ send(message, Undefined)
                         /\ <<transportVars, posts>>' # <<transportVars, posts>>)

\* C14 witness: in SSE mode a stream has been closed and a reply that no
\* stream awaits is about to be sent.
C14_ReplyAfterStreamClosed ==
    /\ ~_enableJsonResponse
    /\ \E s \in 1..Len(sinks) : sinks[s].kind = "request" /\ sinks[s].state = "closed"
    /\ \E message \in Replies :
          /\ Unroutable(message.id)
          /\ sendOutcome(message, Undefined).threw # ""

\* C15: in JSON-response mode send() for a request id never throws; with no
\* pending future for the id it does nothing; with one it removes the
\* future from the map; and it never changes the value of a future that is
\* already fulfilled.
C15_JsonSendIgnoresUnknownId ==
    _enableJsonResponse =>
        \A message \in ServerMessages, relatedRequestId \in RelatedRequestIds :
            LET id == requestIdOf(message, relatedRequestId)
                o == sendOutcome(message, relatedRequestId)
            IN id # Undefined =>
                  /\ o.threw = ""
                  /\ id \notin DOMAIN _pendingJsonResponses =>
                        /\ o = NoOut
                        /\ ~ENABLED (/\ send(message, relatedRequestId)
                                     /\ <<transportVars, posts>>' # <<transportVars, posts>>)
                  /\ id \in DOMAIN _pendingJsonResponses =>
                        ~ENABLED (/\ send(message, relatedRequestId)
                                  /\ id \in DOMAIN _pendingJsonResponses')
                  /\ ~ENABLED (/\ send(message, relatedRequestId)
                               /\ \E p \in Posts :
                                     /\ posts[p].phase = "awaiting"
                                     /\ posts'[p].phase = "awaiting"
                                     /\ \E k \in 1..Len(posts[p].futures) :
                                           /\ posts[p].futures[k] # Unresolved
                                           /\ posts'[p].futures[k] # posts[p].futures[k])

\* C15 witness: one future of a POST is fulfilled and out of the map while
\* the POST still awaits another, so a second reply for its id finds no
\* future.
C15_FulfilledWhileAwaiting ==
    /\ _enableJsonResponse
    /\ \E p \in Posts :
          /\ posts[p].phase = "awaiting"
          /\ \E k \in 1..Len(posts[p].futures) :
                /\ posts[p].futures[k] # Unresolved
                /\ posts[p].ids[k] \notin DOMAIN _pendingJsonResponses

\* The streams and futures a POST may create.
channelVars ==
    <<_standaloneStream, _streams, _requestToStream, _pendingJsonResponses, sinks>>

\* C16: a POST that passes validation and whose body holds no request
\* hands every message of the body to onmessage in body order, is answered
\* 202 with no body and no stream, and creates no stream, no reverse-index
\* entry and no pending future, in SSE mode and in JSON-response mode.
C16_NoRequestsAcknowledged ==
    \A p \in Parsing, body \in Bodies, sessionIdHeader \in SessionHeaders,
       versionHeader \in VersionHeaders :
       (/\ ~hasRequests(body.messages)
        /\ postVerdict(body, sessionIdHeader, versionHeader).status = 0) =>
           LET response == postResumeResponse(body, sessionIdHeader, versionHeader)
           IN /\ response.status = 202
              /\ response.dispatched = body.messages
              /\ response.body = <<>>
              /\ response.stream = Undefined
              /\ ENABLED PostResume(p, body, sessionIdHeader, versionHeader)
              /\ ~ENABLED (/\ PostResume(p, body, sessionIdHeader, versionHeader)
                           /\ channelVars' # channelVars)

\* C16 witness: a session is assigned and a POST of that session with a
\* notification and a response, in this order, is about to be answered 202.
C16_NotificationAndResponse ==
    /\ sessionId # Undefined
    /\ Parsing # {}
    /\ \E body \in PlainBodies :
          /\ Len(body.messages) = 2
          /\ body.messages[1].kind = "notification"
          /\ body.messages[2].kind = "response"
          /\ postResumeResponse(body, sessionId, "supported").status = 202
          /\ postResumeResponse(body, sessionId, "supported").dispatched = body.messages

\* The statuses of the validation errors.
ErrorStatuses == {400, 404, 405, 406, 409, 415}

\* C17: a request answered with a validation error (400, 404, 405, 406,
\* 409 or 415) hands nothing to onmessage and leaves the transport's state
\* as it was: the session id, the initialized flag, the stream map, the
\* reverse index, the pending-future map and the standalone stream.
C17_RejectionChangesNothing ==
    /\ \A method \in Methods, sessionIdHeader \in SessionHeaders :
          handleRequestResponse(method, sessionIdHeader).status \in ErrorStatuses =>
             /\ handleRequestResponse(method, sessionIdHeader).dispatched = <<>>
             /\ ~ENABLED (/\ handleRequest(method, sessionIdHeader)
                          /\ transportVars' # transportVars)
    /\ \A p \in Posts, accept \in AcceptHeaders, contentType \in ContentTypes :
          postBeginResponse(accept, contentType).status \in ErrorStatuses =>
             /\ postBeginResponse(accept, contentType).dispatched = <<>>
             /\ ~ENABLED (/\ PostBegin(p, accept, contentType)
                          /\ <<transportVars, posts>>' # <<transportVars, posts>>)
    /\ \A p \in Parsing, body \in Bodies, sessionIdHeader \in SessionHeaders,
          versionHeader \in VersionHeaders :
          postResumeResponse(body, sessionIdHeader, versionHeader).status \in ErrorStatuses =>
             /\ postResumeResponse(body, sessionIdHeader, versionHeader).dispatched = <<>>
             /\ ~ENABLED (/\ PostResume(p, body, sessionIdHeader, versionHeader)
                          /\ transportVars' # transportVars)

\* C17 witness: a session is assigned, a standalone stream and a
\* request-bound stream are open and a POST is being read: a GET is about
\* to be answered 409 and a DELETE with another session id 404.
C17_RejectionsWithLiveState ==
    /\ sessionId # Undefined
    /\ _standaloneStream # Undefined
    /\ _requestToStream # <<>>
    /\ Parsing # {}
    /\ handleGetResponse.status = 409
    /\ \E sessionIdHeader \in SessionHeaders :
          handleDeleteResponse(sessionIdHeader).status = 404

\* C19: a POST whose body is no JSON, or holds an element that fails the
\* message schema, is answered 400 with code -32700 and the fixed message
\* "Parse error"; the error is reported through onerror, no message of the
\* body is handed to onmessage, the valid elements included, and the
\* transport's state stays as it is.
C19_ParseErrorRejected ==
    \A p \in Parsing, body \in Bodies, sessionIdHeader \in SessionHeaders,
       versionHeader \in VersionHeaders :
       body.parsed # "ok" =>
           LET response == postResumeResponse(body, sessionIdHeader, versionHeader)
           IN /\ response.status = 400
              /\ response.code = -32700
              /\ response.message = "Parse error"
              /\ response.onerror
              /\ response.dispatched = <<>>
              /\ ~ENABLED (/\ PostResume(p, body, sessionIdHeader, versionHeader)
                           /\ transportVars' # transportVars)

\* C19 witness: a POST is being read whose body holds a valid request
\* beside an element that fails the schema, and it is about to be answered
\* 400 without the request being handed over.
C19_ValidElementNotDispatched ==
    /\ Parsing # {}
    /\ _initialized
    /\ \E body \in Bodies :
          /\ body.parsed = "schema-error"
          /\ hasRequests(body.messages)
          /\ postResumeResponse(body, sessionId, "supported").status = 400
          /\ postResumeResponse(body, sessionId, "supported").dispatched = <<>>

\* C20: in SSE mode, whichever of the two or more ids a registered stream
\* still awaits is answered next, the reply is written to that stream and
\* to no other, the stream stays registered awaiting the other ids, and
\* the id leaves the reverse index; so the replies of a POST route to its
\* stream in every order and leave the same state behind.  No id of a
\* stream that is deregistered remains in the reverse index.
C20_RepliesInAnyOrder ==
    ~_enableJsonResponse =>
        /\ \A i \in DOMAIN _requestToStream : _requestToStream[i] \in _streams
        /\ \A s \in _streams :
              Cardinality(sinks[s].pendingIds) >= 2 =>
                 \A message \in {m \in Replies : m.id \in sinks[s].pendingIds} :
                    /\ sendOutcome(message, Undefined).wrote = s
                    /\ sendOutcome(message, Undefined).closed = {}
                    /\ ~ENABLED (/\ send(message, Undefined)
                                 /\ ~(/\ s \in _streams'
                                      /\ sinks' = [sinks EXCEPT ![s].pendingIds = @ \ {message.id}]
                                      /\ message.id \notin DOMAIN _requestToStream'))

\* A request with these headers is answered 400 whatever its verb, before
\* the verb's handler runs.
RejectedByGuard(host, origin) ==
    /\ validateRequestHeaders(host, origin) # ""
    /\ \A method \in Methods, sessionIdHeader \in SessionHeaders :
          /\ validatedResponse(host, origin,
                handleRequestResponse(method, sessionIdHeader)).status = 400
          /\ ~ENABLED (/\ handleValidatedRequest(method, host, origin, sessionIdHeader)
                       /\ transportVars' # transportVars)
    /\ \A p \in Posts, accept \in AcceptHeaders, contentType \in ContentTypes :
          /\ validatedResponse(host, origin, postBeginResponse(accept, contentType)).status = 400
          /\ ~ENABLED (/\ ValidatedPostBegin(p, host, origin, accept, contentType)
                       /\ posts' # posts)

\* C18: with DNS-rebinding protection enabled, whatever the allow-lists
\* are, a request whose Host header is absent or not on the host list is
\* answered 400 before its verb is dispatched, and so is a request whose
\* Origin header is present and not on the origin list; a listed Host with
\* no Origin header passes; with protection disabled every request passes.
C18_DnsRebindingGuard ==
    \A host \in HostHeaders, origin \in OriginHeaders :
        IF _enableDnsRebindingProtection
        THEN /\ (host = "absent" \/ host \notin _allowedHosts) => RejectedByGuard(host, origin)
             /\ (origin # "absent" /\ origin \notin _allowedOrigins) =>
                   RejectedByGuard(host, origin)
             /\ (host \in _allowedHosts /\ origin = "absent") =>
                   validateRequestHeaders(host, origin) = ""
        ELSE validateRequestHeaders(host, origin) = ""

\* The bodies that parse and hold a request.
RequestBodies == {body \in Bodies : body.parsed = "ok" /\ hasRequests(body.messages)}

\* The routing state of POST p is registered for request id i: in SSE mode
\* the stream of the POST is in the stream map, awaits i and is what the
\* reverse index gives for i; in JSON-response mode a pending future of the
\* POST exists for i.  A response sent for i is routed to that channel.
Registered(p, streamId, i) ==
    LET o == sendOutcome([kind |-> "response", id |-> i], Undefined)
    IN /\ o.threw = ""
       /\ IF _enableJsonResponse
          THEN /\ i \in DOMAIN _pendingJsonResponses
               /\ _pendingJsonResponses[i][1] = p
               /\ posts[p].ids[_pendingJsonResponses[i][2]] = i
               /\ o.resolved = _pendingJsonResponses[i]
          ELSE /\ streamId \in _streams
               /\ i \in sinks[streamId].pendingIds
               /\ i \in DOMAIN _requestToStream
               /\ _requestToStream[i] = streamId
               /\ o.wrote = streamId

\* C21: when a POST that carries requests is accepted, the state in which
\* onmessage is first called for it holds the routing state of every
\* request id of the body (SSE mode: the stream in the stream map, the id in
\* its pending set and in the reverse index; JSON-response mode: a pending
\* future for the id), and all the messages of the body are handed over, so
\* a reply sent from inside onmessage is routed to the channel of that POST.
C21_RegisteredBeforeDispatch ==
    \A p \in Parsing, body \in RequestBodies, sessionIdHeader \in SessionHeaders,
       versionHeader \in VersionHeaders :
       postVerdict(body, sessionIdHeader, versionHeader).status = 0 =>
           /\ postResumeResponse(body, sessionIdHeader, versionHeader).dispatched = body.messages
           /\ \A streamId \in {NewStreamId} :
                 ~ENABLED (/\ PostResume(p, body, sessionIdHeader, versionHeader)
                           /\ UNCHANGED configVars
                           /\ \E k \in 1..Len(requestIdsOf(body.messages)) :
                                 ~Registered(p, streamId, requestIdsOf(body.messages)[k])')

\* C21 witness: a POST with two requests is about to be accepted while a
\* request of an earlier POST with one of its ids is still unanswered.
C21_AcceptedBesideInFlight ==
    /\ Parsing # {}
    /\ \E body \in RequestBodies :
          /\ Len(requestIdsOf(body.messages)) = 2
          /\ postVerdict(body, sessionId, "absent").status = 0
          /\ \E k \in 1..2 :
                requestIdsOf(body.messages)[k] \in
                    DOMAIN _requestToStream \cup DOMAIN _pendingJsonResponses

\* The request-bound streams that were cancelled by the peer or closed by
\* the transport.
DeadRequestStreams ==
    {s \in 1..Len(sinks) : sinks[s].kind = "request" /\ sinks[s].state # "open"}

\* C22: every entry id -> s of the reverse index names a stream s that is
\* in the stream map, whose sink is open and whose pending set holds id;
\* so no entry outlives the step that closes or cancels its stream: a
\* stream that is closed or cancelled is out of the stream map and no entry
\* names it.
C22_NoStaleRouting ==
    /\ \A i \in DOMAIN _requestToStream :
          /\ _requestToStream[i] \in _streams
          /\ sinks[_requestToStream[i]].state = "open"
          /\ i \in sinks[_requestToStream[i]].pendingIds
    /\ \A s \in DeadRequestStreams :
          /\ s \notin _streams
          /\ \A i \in DOMAIN _requestToStream : _requestToStream[i] # s

\* C22 witness: one request-bound stream is dead and the reverse index
\* still routes to another.
C22_DeadBesideLive ==
    /\ DeadRequestStreams # {}
    /\ _requestToStream # <<>>

\* C23: every request id in the pending set of a registered stream is
\* mapped by the reverse index to that stream.
C23_PendingIdsIndexed ==
    \A s \in _streams : \A i \in sinks[s].pendingIds :
        /\ i \in DOMAIN _requestToStream
        /\ _requestToStream[i] = s

\* What the cancel callback of stream `streamId` must have removed.
Purged(streamId) ==
    IF sinks[streamId].kind = "standalone"
    THEN _standaloneStream' = Undefined
    ELSE /\ streamId \notin _streams'
         /\ \A i \in sinks[streamId].pendingIds : i \notin DOMAIN _requestToStream'

\* C24: the step in which the peer cancels a stream purges its routing
\* state (a request-bound stream leaves the stream map and none of its
\* pending ids stays in the reverse index; the standalone pointer is
\* cleared); and the stream map and the standalone pointer name open sinks
\* only, so send() never writes to, and never routes to, a sink that was
\* cancelled or closed.
C24_NoSendIntoDeadSink ==
    /\ \A streamId \in 1..Len(sinks) :
          ~ENABLED (Cancel(streamId) /\ ~Purged(streamId))
    /\ \A s \in _streams : sinks[s].state = "open"
    /\ _standaloneStream # Undefined => sinks[_standaloneStream].state = "open"
    /\ \A message \in ServerMessages, relatedRequestId \in RelatedRequestIds :
          LET o == sendOutcome(message, relatedRequestId)
          IN /\ o.threw # "TypeError"
             /\ o.wrote # Undefined => sinks[o.wrote].state = "open"

\* C24 witness: one stream has been cancelled by the peer, and a reply is
\* about to be written to another stream.
C24_CancelledBesideOpen ==
    /\ \E s \in 1..Len(sinks) : sinks[s].state = "cancelled"
    /\ \E message \in Replies : sendOutcome(message, Undefined).wrote # Undefined

\* C25: the cancellation of a request-bound stream by the peer leaves every
\* reverse-index entry that names another stream, and every other stream's
\* registration and pending set, as they are.
C25_CancelPurgesOwnStateOnly ==
    \A streamId \in DOMAIN sinks :
        sinks[streamId].kind = "request" =>
            ~ENABLED (/\ Cancel(streamId)
                      /\ ~(/\ \A i \in DOMAIN _requestToStream :
                                 _requestToStream[i] # streamId =>
                                    /\ i \in DOMAIN _requestToStream'
                                    /\ _requestToStream'[i] = _requestToStream[i]
                           /\ \A t \in _streams \ {streamId} :
                                 /\ t \in _streams'
                                 /\ sinks'[t] = sinks[t]))

\* Stream s is out of the stream map, or its sink is no longer open, after
\* the step.
Leaves(s) == s \notin _streams' \/ sinks'[s].state # "open"

\* C26: a registered request-bound stream leaves the stream map, and has
\* its sink closed, by three causes only: the reply that empties its
\* pending set, its cancellation by the peer, and close().  A GET, a DELETE,
\* another verb, a POST in either of its phases (an initialize included), a
\* notification, a reply that does not empty its pending set, a send() that
\* throws and the cancellation of another stream leave it registered and
\* open; each of the three causes removes it.
C26_ThreeCausesOnly ==
    /\ \A method \in Methods, sessionIdHeader \in SessionHeaders :
          ~ENABLED (/\ handleRequest(method, sessionIdHeader)
                    /\ \E s \in _streams : Leaves(s))
    /\ \A p \in Posts, accept \in AcceptHeaders, contentType \in ContentTypes :
          ~ENABLED (/\ PostBegin(p, accept, contentType)
                    /\ \E s \in _streams : Leaves(s))
    /\ \A p \in Parsing, body \in Bodies, sessionIdHeader \in SessionHeaders,
          versionHeader \in VersionHeaders :
          ~ENABLED (/\ PostResume(p, body, sessionIdHeader, versionHeader)
                    /\ \E s \in _streams : Leaves(s))
    /\ \A message \in ServerMessages, relatedRequestId \in RelatedRequestIds :
          ~ENABLED (/\ send(message, relatedRequestId)
                    /\ \E s \in _streams :
                          /\ Leaves(s)
                          /\ ~(isReply(message) /\ sinks[s].pendingIds = {message.id}))
    /\ \A s \in _streams :
          /\ sinks[s].pendingIds # {}
          /\ \A t \in DOMAIN sinks \ {s} : ~ENABLED (Cancel(t) /\ Leaves(s))
          /\ ENABLED Cancel(s)
          /\ ~ENABLED (Cancel(s) /\ ~Leaves(s))
          /\ ~ENABLED (close /\ ~Leaves(s))
          /\ \A message \in Replies :
                (sinks[s].pendingIds = {message.id}
                    /\ sendOutcome(message, Undefined).wrote = s) =>
                    ~ENABLED (send(message, Undefined) /\ ~Leaves(s))

\* C26 witness: a session is assigned, two request-bound streams are
\* registered, one awaiting two replies and one awaiting one, and a POST is
\* being read.
C26_TwoStreamsAwaiting ==
    /\ sessionId # Undefined
    /\ Parsing # {}
    /\ \E s \in _streams, t \in _streams :
          /\ Cardinality(sinks[s].pendingIds) = 2
          /\ Cardinality(sinks[t].pendingIds) = 1

\* A POST with an initialize message that resumes while a session is
\* assigned is answered 400 and changes neither sessionId nor the number of
\* ids the generator has returned.
LaterInitializeRefused ==
    (sessionIdGenerator /\ sessionId # Undefined) =>
        \A p \in Parsing, body \in InitializeBodies, sessionIdHeader \in SessionHeaders,
           versionHeader \in VersionHeaders :
           /\ postResumeResponse(body, sessionIdHeader, versionHeader).status = 400
           /\ postResumeResponse(body, sessionIdHeader, versionHeader).dispatched = <<>>
           /\ ~ENABLED (/\ PostResume(p, body, sessionIdHeader, versionHeader)
                        /\ <<sessionId, generated>>' # <<sessionId, generated>>)

\* C27: with a generator configured, however the POSTs in flight interleave
\* at their suspension point, the generator is called only while no session
\* is assigned, once, and sessionId takes the value it returns; an assigned
\* sessionId changes only by being cleared (by a DELETE), without a call of
\* the generator; and every initialize POST that resumes while a session is
\* assigned is answered 400 and leaves sessionId as it is.  So between two
\* DELETEs at most one initialize is accepted.
C27_OneInitializeAccepted ==
    /\ []LaterInitializeRefused
    /\ [][sessionIdGenerator =>
             /\ generated' # generated =>
                   /\ sessionId = Undefined
                   /\ generated' = generated + 1
                   /\ sessionId' = generated'
             /\ (sessionId # Undefined /\ sessionId' # sessionId) =>
                   /\ sessionId' = Undefined
                   /\ generated' = generated]_vars

\* C27 witness: in JSON-response mode, with a generator, the initialize of
\* one POST has been accepted and is awaiting its reply, and the other POST
\* in flight is about to resume with an initialize message and be answered
\* 400.
C27_SecondInitializeInFlight ==
    /\ sessionIdGenerator /\ _enableJsonResponse
    /\ sessionId # Undefined
    /\ \E p \in Posts, q \in Parsing :
          /\ posts[p].phase = "awaiting"
          /\ \E body \in InitializeBodies :
                /\ Len(body.messages) = 1
                /\ postResumeResponse(body, Undefined, "absent").status = 400

\* The session check of a POST without an initialize message passes.
SessionAccepted(sessionIdHeader) ==
    sessionIdGenerator => (sessionIdHeader # Undefined /\ sessionIdHeader = sessionId)

\* C28: a POST whose body has no initialize message and whose session
\* header is accepted is answered 400, hands nothing to onmessage and
\* changes nothing when its mcp-protocol-version header names an
\* unsupported version, and passes when the header is absent or names a
\* supported one; one whose session header is not accepted gets the
\* session error whatever its version header is; and the verdict on a POST
\* with an initialize message does not depend on the version header.
C28_VersionGuard ==
    \A p \in Parsing, sessionIdHeader \in SessionHeaders :
        /\ \A body \in PlainBodies :
              LET bad == postResumeResponse(body, sessionIdHeader, "unsupported")
              IN IF SessionAccepted(sessionIdHeader)
                 THEN /\ bad.status = 400
                      /\ bad.message = "Bad Request: Unsupported protocol version"
                      /\ bad.dispatched = <<>>
                      /\ ~ENABLED (/\ PostResume(p, body, sessionIdHeader, "unsupported")
                                   /\ transportVars' # transportVars)
                      /\ \A versionHeader \in {"absent", "supported"} :
                            /\ postVerdict(body, sessionIdHeader, versionHeader).status = 0
                            /\ postResumeResponse(body, sessionIdHeader, versionHeader).dispatched
                                  = body.messages
                 ELSE /\ bad.status = IF sessionIdHeader = Undefined THEN 400 ELSE 404
                      /\ bad.message # "Bad Request: Unsupported protocol version"
                      /\ \A versionHeader \in VersionHeaders :
                            postResumeResponse(body, sessionIdHeader, versionHeader) = bad
        /\ \A body \in InitializeBodies, versionHeader \in VersionHeaders :
              /\ postVerdict(body, sessionIdHeader, versionHeader)
                    = postVerdict(body, sessionIdHeader, "supported")
              /\ (Len(body.messages) = 1 /\ sessionId = Undefined) =>
                    postVerdict(body, sessionIdHeader, versionHeader).status = 0

\* C28 witness: a session is assigned and a POST with a request is being
\* read: with an unsupported version it is about to be answered 400 under
\* the session's id and 404 under another id.
C28_BadVersionAndBadSession ==
    /\ sessionIdGenerator
    /\ sessionId # Undefined
    /\ Parsing # {}
    /\ \E body \in PlainBodies, sessionIdHeader \in SessionHeaders \ {Undefined, sessionId} :
          /\ hasRequests(body.messages)
          /\ postResumeResponse(body, sessionId, "unsupported").status = 400
          /\ postResumeResponse(body, sessionIdHeader, "unsupported").status = 404

\* C29: a DELETE that is answered 204 leaves the stream map, the reverse
\* index, the pending-future map, the standalone stream, the sinks and the
\* POSTs in flight as they are, so every send() does after it what it would
\* have done before it: replies of requests accepted before the DELETE go
\* to their streams and notifications to the standalone stream.
C29_DeleteKeepsStreams ==
    (sessionIdGenerator /\ sessionId # Undefined) =>
        /\ handleDeleteResponse(sessionId).status = 204
        /\ ENABLED handleRequest("DELETE", sessionId)
        /\ ~ENABLED (/\ handleRequest("DELETE", sessionId)
                     /\ UNCHANGED configVars
                     /\ \/ channelVars' # channelVars
                        \/ posts' # posts
                        \/ generated' # generated
                        \/ \E message \in ServerMessages, relatedRequestId \in RelatedRequestIds :
                              sendOutcome(message, relatedRequestId)'
                                 # sendOutcome(message, relatedRequestId))

\* C29 witness: a session is about to be deleted while a standalone stream
\* is open and a reply is owed on a request-bound stream or to a future.
C29_DeleteWithOpenChannels ==
    /\ sessionIdGenerator
    /\ sessionId # Undefined
    /\ OpenStandaloneStreams # {}
    /\ sendOutcome([kind |-> "notification", id |-> Undefined], Undefined).wrote
          \in OpenStandaloneStreams
    /\ \E message \in Replies :
          LET o == sendOutcome(message, Undefined)
          IN o.wrote # Undefined \/ o.resolved # <<>>

\* C30: in JSON-response mode close() leaves no POST suspended on a future
\* that is neither fulfilled nor in the pending-future map, where no send()
\* can reach it: every POST that was awaiting replies completes.
C30_CloseCompletesAwaitingPosts ==
    _enableJsonResponse =>
        ~ENABLED (/\ close
                  /\ \E p \in Posts :
                        /\ posts'[p].phase = "awaiting"
                        /\ \E k \in 1..Len(posts'[p].ids) :
                              /\ posts'[p].futures[k] = Unresolved
                              /\ posts'[p].ids[k] \notin DOMAIN _pendingJsonResponses')

\* C31: in the worker, however the fetch calls interleave, at most one
\* McpServer and one transport are built, and every request is handed to
\* that one transport, the one cachedState holds.
C31_OneTransportForAll ==
    /\ created <= 1
    /\ Cardinality(handledBy) <= 1
    /\ \A f \in Fetches : fetches[f].pc = "handling" => fetches[f].transport = cachedState

\* C32: for every token and both schemes, parseAuthorizationHeader applied
\* to what formatAuthorizationHeader returns gives back the token.
C32_AuthorizationRoundTrip ==
    parsedToken # Unset => parsedToken = String(token)

\* C33: the unlink tool selects for removal, when a url is supplied, the
\* relations whose rel is the link type asked for and whose url is the
\* supplied url, and when no url is supplied all the relations of the link
\* type asked for; no others.
C33_UnlinkSelection ==
    relationIndexes # Unset =>
        Range(relationIndexes.value) =
            {k - 1 : k \in {j \in 1..Len(relations) :
                /\ relations[j].rel = getLinkTypeFromName(type)
                /\ url # "absent" => relations[j].url = url}}

\* A string that is a decimal integer, with or without a minus sign, and
\* nothing else.
isNumeral(chars) ==
    LET digits == IF chars # <<>> /\ Head(chars) = "-" THEN Tail(chars) ELSE chars
    IN /\ digits # <<>>
       /\ \A k \in 1..Len(digits) : isDigit(digits[k])

numeralValue(chars) ==
    IF Head(chars) = "-" THEN 0 - leadingDigits(Tail(chars), 0) ELSE leadingDigits(chars, 0)

\* The lengths of the prefixes of a string that are decimal integers.
NumeralPrefixes(chars) == {n \in 1..Len(chars) : isNumeral(SubSeq(chars, 1, n))}

\* The longest prefix of a string that is a decimal integer.
longestNumeral(chars) ==
    SubSeq(chars, 1, CHOOSE n \in NumeralPrefixes(chars) :
                         \A m \in NumeralPrefixes(chars) : m <= n)

\* The lifetime as stated: expires_in, and 3600 when it is missing,
\* non-numeric or not positive.
statedSeconds(e) ==
    LET v == IF e.type = "number" THEN e.num
             ELSE IF e.type = "string" /\ isNumeral(e.chars) THEN numeralValue(e.chars)
             ELSE 0
    IN IF v > 0 THEN v ELSE 3600

\* The lifetime when a string is read as the decimal integer it starts
\* with, whatever follows that integer.
leadingSeconds(e) ==
    LET v == IF e.type = "number" THEN e.num
             ELSE IF e.type = "string" /\ NumeralPrefixes(e.chars) # {}
             THEN numeralValue(longestNumeral(e.chars))
             ELSE 0
    IN IF v > 0 THEN v ELSE 3600

\* A call returns the cached token, without a request to the token
\* endpoint and without a change of state, exactly when a token is cached
\* and its expiry is more than 120 seconds away; otherwise it sends the
\* request.
CachedTokenServed ==
    \A c \in Calls :
        calls[c] = "idle" =>
            IF cache.set /\ cache.expiresAtMs - now > 120 * 1000
            THEN /\ ~callOutcome.fetched
                 /\ callOutcome.returned = cache.accessToken
                 /\ ~ENABLED (callProvider(c) /\ providerVars' # providerVars)
            ELSE /\ callOutcome.fetched
                 /\ ENABLED callProvider(c)
                 /\ ~ENABLED (callProvider(c) /\ calls'[c] # "fetching")

\* A request that fails makes the call throw and leaves the cache as it is.
FailedFetchKeepsCache ==
    \A c \in Calls, response \in Responses :
        (calls[c] = "fetching" /\ failed(response)) =>
            /\ fetchedOutcome(response).threw
            /\ ~ENABLED (fetched(c, response) /\ cache' # cache)

\* C34 as stated: the cached token is served exactly while its expiry is
\* more than 120 seconds away; a failed fetch throws and keeps the cache;
\* a successful fetch returns the new token and caches it with the expiry
\* now + expires_in seconds, where 3600 stands for an expires_in that is
\* missing, non-numeric or not positive.
C34_ProviderCaches ==
    /\ CachedTokenServed
    /\ FailedFetchKeepsCache
    /\ \A c \in Calls, response \in Responses :
          (calls[c] = "fetching" /\ ~failed(response)) =>
              /\ fetchedOutcome(response).returned = response.access_token
              /\ ~ENABLED (/\ fetched(c, response)
                           /\ cache' # [set |-> TRUE, accessToken |-> response.access_token,
                                        expiresAtMs |-> now + statedSeconds(response.expires_in) * 1000])

\* C34 amended: as stated, except that an expires_in that is a string is
\* read as the decimal integer it starts with, whatever follows it ("180s"
\* is 180 seconds); 3600 stands for an expires_in that is missing, is a
\* string that starts with no integer, or is not positive.
C34_ProviderCachesLeadingInteger ==
    /\ CachedTokenServed
    /\ FailedFetchKeepsCache
    /\ \A c \in Calls, response \in Responses :
          (calls[c] = "fetching" /\ ~failed(response)) =>
              /\ fetchedOutcome(response).returned = response.access_token
              /\ ~ENABLED (/\ fetched(c, response)
                           /\ cache' # [set |-> TRUE, accessToken |-> response.access_token,
                                        expiresAtMs |-> now + leadingSeconds(response.expires_in) * 1000])

\* C34 witness: a token is cached that has not expired but whose expiry is
\* no more than 120 seconds away, one call has sent a request for a new
\* token and another call is about to be made.
C34_RefetchBeforeExpiry ==
    /\ cache.set
    /\ now < cache.expiresAtMs
    /\ cache.expiresAtMs - now <= 120 * 1000
    /\ \E c \in Calls, d \in Calls : calls[c] = "fetching" /\ calls[d] = "idle"

====
